---- MODULE Spec2Model ----
(***************************************************************************)
(* inkslides: one Inkscape document is compiled into an ordered plan of    *)
(* frames, every frame is materialized as an intermediate SVG file, the    *)
(* frames that are no cache hit are rendered by a pool of workers that     *)
(* each drive one `inkscape --shell` process, and the page artifacts are   *)
(* merged in plan order.                                                   *)
(*                                                                         *)
(* Modelled from src/inkslides/inkslides.py, src/inkslides/inkscape.py,    *)
(* src/inkslides/utils.py and src/inkslides/merge.py; the content grammar  *)
(* of the predecessor script from src/inkscapeslide.py.                    *)
(***************************************************************************)
EXTENDS Integers, Sequences, FiniteSets, TLC

(***************************************************************************)
(* Bounds of the model.                                                    *)
(***************************************************************************)
\* largest pool size (-p/--parallel-workers) tried
MaxWorkers == 2
\* number of invocations of InkSlides.run in one behaviour
MaxRuns == 2
\* number of edits the user makes to the input file in one behaviour
MaxEdits == 1
\* number of renderer processes that die unexpectedly (SpecCrash only)
MaxCrashes == 1
\* largest number of layers of a generated document (SpecPlan only)
MaxLayers == 4
\* number of invocations of InkSlides.run in one behaviour of SpecRerun
MaxReruns == 3

(***************************************************************************)
(* The document: an arena of layer nodes in document order.  parent = 0   *)
(* is the document root.  `style` is the plain style="..." attribute as a *)
(* dictionary ("" = key absent); `nsstyle` is the attribute               *)
(* {http://www.w3.org/2000/svg}style, which is what utils.get_attr(el,    *)
(* 'style', 'svg') looks up and which no Inkscape document carries.       *)
(* `use` says that the layer holds an svg:use element itself, `tok` is    *)
(* the text of a tspan in the layer ("", "#num#" or "#frame_num#"), and   *)
(* `lines` are the lines that follow a #import# marker in the layer.      *)
(***************************************************************************)
NoStyle == [display |-> "", opacity |-> ""]

Style(d, o) == [display |-> d, opacity |-> o]

Line(neg, name) == [neg |-> neg, name |-> name]

Lyr(label, parent, opacity, use, tok, lines) ==
    [label |-> label, parent |-> parent, style |-> Style("inline", opacity),
     nsstyle |-> NoStyle, use |-> use, tok |-> tok, lines |-> lines]

Range(s) == {s[i] : i \in DOMAIN s}

Indices(d) == 1..Len(d.layers)

\* utils.get_label
get_label(d, n) == d.layers[n].label

\* xpath './svg:g[@inkscape:groupmode="layer"]' below node p, in document order
Children(d, p) ==
    SelectSeq([i \in Indices(d) |-> i], LAMBDA n : d.layers[n].parent = p)

RECURSIVE TopAncestor(_, _)
\* the top-level layer that encloses layer n (n itself when it is top-level)
TopAncestor(d, n) ==
    IF d.layers[n].parent = 0 THEN n ELSE TopAncestor(d, d.layers[n].parent)

RECURSIVE IsInside(_, _, _)
\* layer m is layer n or one of its descendants
IsInside(d, m, n) ==
    IF m = n THEN TRUE
    ELSE IF d.layers[m].parent = 0 THEN FALSE
    ELSE IsInside(d, d.layers[m].parent, n)

(***************************************************************************)
(* utils.py: styles and layers                                             *)
(***************************************************************************)
\* utils.get_styles: reads the attribute under the svg namespace
get_styles(el) == el.nsstyle

\* utils.set_styles: writes the plain style attribute
set_styles(el, styles) == [el EXCEPT !.style = styles]

\* utils.show_layer
show_layer(layer) ==
    set_styles(layer, [get_styles(layer) EXCEPT !.display = "inline"])

\* a lookup that answers with the last layer of the document when no layer
\* carries the name
ResolveLenient(d, name) ==
    LET hits == {n \in 1..Len(d.layers) : d.layers[n].label = name}
    IN  IF hits = {} THEN Len(d.layers) ELSE CHOOSE n \in hits : \A m \in hits : m <= n

\* utils.get_all_layers: a dict keyed by label, so that of several layers with
\* one label the last one in document order is kept; 0 stands for a KeyError
Resolve(d, name) ==
    LET hits == {n \in Indices(d) : get_label(d, n) = name}
    IN  IF hits = {} THEN 0 ELSE CHOOSE n \in hits : \A m \in hits : m <= n

get_all_layers(d) == {Resolve(d, get_label(d, n)) : n \in Indices(d)}

\* utils.hide_all_layers
hide_all_layers(d) ==
    [d EXCEPT !.layers =
        [n \in Indices(d) |->
            IF n \in get_all_layers(d)
            THEN set_styles(d.layers[n],
                            [get_styles(d.layers[n]) EXCEPT !.display = "none"])
            ELSE d.layers[n]]]

(***************************************************************************)
(* Plan compiler (InkSlides.get_layer_structure and helpers).  A result is *)
(* [ok, list]; ok = FALSE stands for the exception the code raises.        *)
(***************************************************************************)
\* a compiler that ignores the #master# directive
add_no_master_layers(d, current_layers) == current_layers

\* InkSlides.add_master_layers: the lines after the first #master# marker
add_master_layers(d, current_layers) == current_layers \o d.master

\* list.remove(x): removes the first occurrence, ValueError when there is none
ListRemove(list, x) ==
    IF \E i \in DOMAIN list : list[i] = x
    THEN LET k == CHOOSE i \in DOMAIN list :
                    list[i] = x /\ \A j \in 1..(i - 1) : list[j] # x
         IN  [ok |-> TRUE,
              list |-> SubSeq(list, 1, k - 1) \o SubSeq(list, k + 1, Len(list))]
    ELSE [ok |-> FALSE, list |-> list]

RECURSIVE ApplyLines(_, _)
ApplyLines(lines, current_layers) ==
    IF lines = <<>> THEN [ok |-> TRUE, list |-> current_layers]
    ELSE LET l == Head(lines)
             r == IF l.neg THEN ListRemove(current_layers, l.name)
                  ELSE [ok |-> TRUE, list |-> Append(current_layers, l.name)]
         IN  IF r.ok THEN ApplyLines(Tail(lines), r.list) ELSE r

\* InkSlides.add_imported_layers
add_imported_layers(d, layer, current_layers) ==
    ApplyLines(d.layers[layer].lines, current_layers)

\* a plan entry that carries the number 1 whatever its slide
EntryFirst(num_slide, layers) == [num |-> 1, layers |-> layers]

\* one entry of slide_tree: (num_slide, current_slide[:])
Entry(num_slide, layers) == [num |-> num_slide, layers |-> layers]

RECURSIVE SublayersAlone(_, _, _, _)
\* sub-frames that do not build up: every frame shows its own sublayer only
SublayersAlone(d, subs, num_slide, current_slide) ==
    IF subs = <<>> THEN [ok |-> TRUE, list |-> <<>>]
    ELSE LET cur == add_imported_layers(d, Head(subs),
                        Append(current_slide, get_label(d, Head(subs))))
             rest == SublayersAlone(d, Tail(subs), num_slide, current_slide)
         IN  IF ~cur.ok THEN [ok |-> FALSE, list |-> <<>>]
             ELSE IF ~rest.ok THEN rest
             ELSE [ok |-> TRUE,
                   list |-> <<Entry(num_slide, cur.list)>> \o rest.list]

RECURSIVE Sublayers(_, _, _, _)
\* the loop over the sublayers of one slide (inkslides.py lines 370-373)
Sublayers(d, subs, num_slide, current_slide) ==
    IF subs = <<>> THEN [ok |-> TRUE, list |-> <<>>]
    ELSE LET cur == add_imported_layers(d, Head(subs),
                        Append(current_slide, get_label(d, Head(subs))))
             rest == Sublayers(d, Tail(subs), num_slide, cur.list)
         IN  IF ~cur.ok THEN [ok |-> FALSE, list |-> <<>>]
             ELSE IF ~rest.ok THEN rest
             ELSE [ok |-> TRUE,
                   list |-> <<Entry(num_slide, cur.list)>> \o rest.list]

\* a slide that is one frame whatever layers it holds
SlideFramesNoBuild(d, sec, slide, num_slide) ==
    [ok |-> TRUE,
     list |-> <<Entry(num_slide, <<get_label(d, sec), get_label(d, slide)>>)>>]

\* a compiler that builds current_slide once per section: the names the
\* slides before have imported are still in the list of the next slide
SlideFramesKept(d, sec, slide, num_slide) ==
    LET before == {m \in Range(Children(d, sec)) : m < slide}
        carried == IF \E m \in before : d.layers[m].lines # <<>>
                   THEN <<(CHOOSE m \in before : d.layers[m].lines # <<>>)>>
                   ELSE <<>>
        start == add_imported_layers(d, slide,
                     add_master_layers(d,
                         <<get_label(d, sec), get_label(d, slide)>>
                             \o [j \in DOMAIN carried |->
                                     d.layers[carried[j]].lines[1].name]))
        sublayers == Children(d, slide)
    IN  IF ~start.ok THEN [ok |-> FALSE, list |-> <<>>]
        ELSE IF sublayers # <<>>
             THEN Sublayers(d, sublayers, num_slide, start.list)
             ELSE [ok |-> TRUE, list |-> <<Entry(num_slide, start.list)>>]

\* the body of the loop over the slides of one section (lines 358-377)
SlideFrames(d, sec, slide, num_slide) ==
    LET start == add_imported_layers(d, slide,
                     add_master_layers(d, <<get_label(d, sec), get_label(d, slide)>>))
        sublayers == Children(d, slide)
    IN  IF ~start.ok THEN [ok |-> FALSE, list |-> <<>>]
        ELSE IF sublayers # <<>>
             THEN Sublayers(d, sublayers, num_slide, start.list)
             ELSE [ok |-> TRUE, list |-> <<Entry(num_slide, start.list)>>]

RECURSIVE Slides(_, _, _, _)
\* the slides of the sections from (sec, slides) on; num_slide counts the slides
\* seen so far over all sections
Slides(d, secs, slides, num_slide) ==
    IF slides = <<>>
    THEN IF Len(secs) <= 1 THEN [ok |-> TRUE, list |-> <<>>]
         ELSE Slides(d, Tail(secs), Children(d, secs[2]), num_slide)
    ELSE LET here == SlideFrames(d, Head(secs), Head(slides), num_slide + 1)
             rest == Slides(d, secs, Tail(slides), num_slide + 1)
         IN  IF ~here.ok THEN here
             ELSE IF ~rest.ok THEN rest
             ELSE [ok |-> TRUE, list |-> here.list \o rest.list]

\* InkSlides.get_layer_structure
get_layer_structure(d) ==
    LET secs == Children(d, 0)
    IN  IF secs = <<>> THEN [ok |-> TRUE, list |-> <<>>]
        ELSE Slides(d, secs, Children(d, secs[1]), 0)

RECURSIVE FlatSlides(_, _, _)
FlatSlides(d, slides, num_slide) ==
    IF slides = <<>> THEN [ok |-> TRUE, list |-> <<>>]
    ELSE LET cur == add_imported_layers(d, Head(slides),
                        add_master_layers(d, <<get_label(d, Head(slides))>>))
             rest == FlatSlides(d, Tail(slides), num_slide + 1)
         IN  IF ~cur.ok THEN [ok |-> FALSE, list |-> <<>>]
             ELSE IF ~rest.ok THEN rest
             ELSE [ok |-> TRUE,
                   list |-> <<Entry(num_slide + 1, cur.list)>> \o rest.list]

\* a flat compiler that makes an entry of every layer, nested ones included
get_every_layer_structure(d) == FlatSlides(d, [i \in Indices(d) |-> i], 0)

\* InkSlides.get_flat_layer_structure
get_flat_layer_structure(d) == FlatSlides(d, Children(d, 0), 0)

(***************************************************************************)
(* Files.  A path is the frame index with an extension, relative to the    *)
(* temp folder of the run; a file system is a function from the paths      *)
(* that exist to their bytes.  The bytes of an intermediate file are the   *)
(* serialized elements of the clone; the bytes of an artifact are the page *)
(* the renderer drew from an intermediate file.                            *)
(***************************************************************************)
\* one intermediate path for all frames
svg_path_shared(frame_num) == [stem |-> 0, ext |-> "svg"]

\* '{1}/slide-{0}.svg'.format(frame_num, self.tmp_folder)
svg_path(frame_num) == [stem |-> frame_num, ext |-> "svg"]

\* an artifact written over the intermediate file it is rendered from
pdf_in_place(svg_file_name) == svg_file_name

\* InkSlides.pdf_from_svg: the last extension is replaced by pdf
pdf_from_svg(svg_file_name) == [svg_file_name EXCEPT !.ext = "pdf"]

\* os.path.exists
exists(files, path) == path \in DOMAIN files

\* hashlib.sha256(...).digest(), taken to be free of collisions
Sha256(bytes) == <<"sha256", bytes>>

\* the replacement of the numbering placeholders (lines 225-231)
Substitute(tok, slide_num, frame_num) ==
    IF tok = "#num#" THEN ToString(slide_num)
    ELSE IF tok = "#frame_num#" THEN ToString(frame_num)
    ELSE tok

Element(tag, id, l) ==
    [tag |-> tag, id |-> id, label |-> l.label, parent |-> l.parent,
     style |-> l.style, nsstyle |-> l.nsstyle, use |-> l.use, tok |-> l.tok,
     lines |-> l.lines]

Blank == Lyr("", 0, "", FALSE, "", <<>>)

\* tmp_doc.write: the elements of the document in document order
Serialize(d) ==
    (IF d.namedview THEN <<Element("sodipodi:namedview", 0, [Blank EXCEPT !.style = NoStyle])>>
     ELSE <<>>)
    \o (IF d.master # <<>>
        THEN <<Element("svg:text", 0, [Blank EXCEPT !.style = NoStyle,
                   !.tok = "#master#",
                   !.lines = [i \in DOMAIN d.master |-> Line(FALSE, d.master[i])]])>>
        ELSE <<>>)
    \o [i \in 1..Len(d.kept) |-> Element("svg:g", d.kept[i], d.layers[d.kept[i]])]

\* the layers named by a frame, as tmp_layers[layer] finds them
Shown(d, slide) == {Resolve(d, slide[i]) : i \in DOMAIN slide}

\* './/svg:use' below a layer
HasUse(d, n) == \E m \in Indices(d) : IsInside(d, m, n) /\ d.layers[m].use

\* the hidden top-level layers (lines 203-207)
to_be_deleted(d) ==
    {n \in Indices(d) : d.layers[n].parent = 0 /\ d.layers[n].style.display = "none"}

\* The body of the loop of InkSlides.create_slides_svg up to the serialization
\* (lines 191-216 and 225-231): the bytes written for one frame; ok = FALSE
\* stands for the KeyError of an unresolved name or the IndexError of a document
\* without a namedview element
Materialize(d, frame_num, slide_num, slide) ==
    LET shown == Shown(d, slide)
        tmp_doc == [d EXCEPT !.layers =
                       [n \in Indices(d) |->
                           IF n \in shown THEN show_layer(d.layers[n]) ELSE d.layers[n]]]
        do_delete == \A n \in shown \ {0} : ~HasUse(d, n)
        gone == IF do_delete THEN to_be_deleted(tmp_doc) ELSE {}
        kept == SelectSeq([i \in Indices(d) |-> i],
                          LAMBDA n : TopAncestor(d, n) \notin gone)
        numbered == [n \in Indices(d) |->
                        [tmp_doc.layers[n] EXCEPT
                            !.tok = Substitute(@, slide_num, frame_num)]]
    IN  IF 0 \in shown \/ (do_delete /\ ~d.namedview)
        THEN [ok |-> FALSE, bytes |-> <<>>]
        ELSE [ok |-> TRUE,
              bytes |-> Serialize([layers |-> numbered, kept |-> kept,
                                   master |-> d.master,
                                   namedview |-> d.namedview /\ ~do_delete])]

\* a cache decision that forgets to compare the hashes
IsCachedNoHash(existed, old_hash, new_hash, pdf_exists) == existed /\ pdf_exists

\* the cache decision of create_slides_svg (lines 221-241)
IsCached(existed, old_hash, new_hash, pdf_exists) ==
    existed /\ old_hash = new_hash /\ pdf_exists

(***************************************************************************)
(* Merging (merge.py)                                                      *)
(***************************************************************************)
\* MergerWrapper.TOOLS
TOOLS == <<"PyPDF2", "pdfunite", "gs">>

\* a search that keeps looking and answers with the last tool that is available
find_last_tool(avail) ==
    IF \E i \in DOMAIN TOOLS : TOOLS[i] \in avail
    THEN TOOLS[CHOOSE i \in DOMAIN TOOLS :
                   TOOLS[i] \in avail /\ \A j \in (i + 1)..Len(TOOLS) : TOOLS[j] \notin avail]
    ELSE "None"

\* MergerWrapper.find_merging_tool: the first tool that is available
find_merging_tool(avail) ==
    IF \E i \in DOMAIN TOOLS : TOOLS[i] \in avail
    THEN TOOLS[CHOOSE i \in DOMAIN TOOLS :
                   TOOLS[i] \in avail /\ \A j \in 1..(i - 1) : TOOLS[j] \notin avail]
    ELSE "None"

\* largest number of directories on PATH
MaxPath == 2

\* the tools of type Merger.TYPE_BINARY (pdfunite, gs); PyPDF2 is a package
BINARIES == {"pdfunite", "gs"}

\* a directory of PATH: what it holds under the name of each binary
Dirs == [BINARIES -> {"absent", "file", "exe"}]

\* is_exe: os.path.isfile(fpath) and os.access(fpath, os.X_OK)
is_exe(dir, program) == dir[program] = "exe"

\* MergerWrapper.which: the first directory of PATH that holds the program as
\* an executable file, 0 for None
which(PATH, program) ==
    IF \E i \in DOMAIN PATH : is_exe(PATH[i], program)
    THEN CHOOSE i \in DOMAIN PATH :
             is_exe(PATH[i], program) /\ \A j \in 1..(i - 1) : ~is_exe(PATH[j], program)
    ELSE 0

\* the tests of find_merging_tool: a binary is available when which finds
\* it, a package when __import__ does not raise ImportError
Available(PATH, importable) ==
    {t \in Range(TOOLS) :
        IF t \in BINARIES THEN which(PATH, t) # 0 ELSE importable}

(***************************************************************************)
(* The inputs of a behaviour.                                              *)
(***************************************************************************)
Doc(layers, master) == [layers |-> layers, master |-> master, namedview |-> TRUE]

\* two sections; the first slide builds up in two frames: 3 frames
DocBuild ==
    Doc(<<Lyr("A", 0, "1", FALSE, "", <<>>),
          Lyr("A1", 1, "0.5", FALSE, "#num#", <<>>),
          Lyr("A1a", 2, "1", FALSE, "", <<>>),
          Lyr("A1b", 2, "1", FALSE, "", <<>>),
          Lyr("B", 0, "1", FALSE, "", <<>>),
          Lyr("B1", 5, "1", FALSE, "#frame_num#", <<>>)>>, <<>>)

\* one section with two slides, the second holds an svg:use; a master layer
DocUse ==
    Doc(<<Lyr("logo", 0, "1", FALSE, "", <<>>),
          Lyr("A", 0, "1", FALSE, "", <<>>),
          Lyr("A1", 2, "1", FALSE, "", <<>>),
          Lyr("A2", 2, "0.5", TRUE, "", <<>>)>>, <<"logo">>)

\* the second slide imports a layer that does not exist
DocMissing ==
    Doc(<<Lyr("A", 0, "1", FALSE, "", <<>>),
          Lyr("A1", 1, "1", FALSE, "", <<>>),
          Lyr("A2", 1, "1", FALSE, "", <<Line(FALSE, "nolayer")>>)>>, <<>>)

\* a slide removes a layer that is not in its list
DocRemove ==
    Doc(<<Lyr("A", 0, "1", FALSE, "", <<>>),
          Lyr("A1", 1, "1", FALSE, "", <<Line(TRUE, "B")>>)>>, <<>>)

\* a document without slides
DocEmpty == Doc(<<Lyr("A", 0, "1", FALSE, "", <<>>)>>, <<>>)

Inputs ==
    {[doc |-> DocBuild, flat |-> FALSE], [doc |-> DocUse, flat |-> FALSE],
     [doc |-> DocMissing, flat |-> FALSE], [doc |-> DocRemove, flat |-> FALSE],
     [doc |-> DocEmpty, flat |-> FALSE], [doc |-> DocBuild, flat |-> TRUE]}

Opacities == {"1", "0.5"}

(***************************************************************************)
(* Generated documents, the inputs of SpecPlan: every tree of at most      *)
(* MaxLayers layers (a layer follows its parent in document order), the    *)
(* n-th layer labelled n, at most one layer with a #import# directive and  *)
(* one #master# directive.                                                 *)
(***************************************************************************)
LabelOf(n) == ToString(n)

\* the parent of every layer of a tree of n layers
Shapes(n) == {p \in [1..n -> 0..(n - 1)] : \A i \in 1..n : p[i] < i}

\* the lines of the #import# directive: one name to add (the last layer of the
\* document, or a name no layer carries) and one name to remove
ImportLines(n) ==
    {<<Line(FALSE, e), Line(TRUE, LabelOf(b))>> : e \in {LabelOf(n), "extra"}, b \in 1..n}

\* the lines of the #master# directive
MasterLines(n) == {<<>>, <<LabelOf(1)>>, <<LabelOf(n)>>, <<LabelOf(1), LabelOf(n)>>}

\* the document of shape p whose layer k (none for k = 0) carries the directive
GenDoc(p, k, lines, master) ==
    Doc([i \in 1..Len(p) |->
            Lyr(LabelOf(i), p[i], "1", FALSE, "", IF i = k THEN lines ELSE <<>>)],
        master)

(***************************************************************************)
(* The content grammar of the predecessor script (src/inkscapeslide.py,   *)
(* parse_layers in src/inkslides.py): the text of the layer "content",     *)
(* one line per slide.  A line of text is a sequence of characters.  The   *)
(* lists the parser builds are Python objects: `lists` holds the slide     *)
(* lists (sequences of references to entries), `entries` the entry lists   *)
(* ([name] or [name, value]); a reference is an index.                     *)
(***************************************************************************)
\* largest number of lines of the content text
MaxLegacyLines == 2

RECURSIVE lstrip(_)
lstrip(s) == IF s # <<>> /\ Head(s) = " " THEN lstrip(Tail(s)) ELSE s

RECURSIVE rstrip(_)
rstrip(s) ==
    IF s # <<>> /\ s[Len(s)] = " " THEN rstrip(SubSeq(s, 1, Len(s) - 1)) ELSE s

\* str.strip
strip(s) == rstrip(lstrip(s))

\* str.startswith, for a prefix of one character
startswith(s, c) == s # <<>> /\ s[1] = c

RECURSIVE split(_, _)
\* str.split(sep), for a separator of one character
split(s, sep) ==
    IF \E k \in DOMAIN s : s[k] = sep
    THEN LET k == CHOOSE i \in DOMAIN s : s[i] = sep /\ \A j \in 1..(i - 1) : s[j] # sep
         IN  <<SubSeq(s, 1, k - 1)>> \o split(SubSeq(s, k + 1, Len(s)), sep)
    ELSE <<s>>

\* a slide built with + that shares the list object of the slide before
AliasLast(lists, layers) == [lists |-> lists, ref |-> layers[Len(layers)]]

\* cache = layers[-1].copy(): a new list object that holds the same entries
CopyLast(lists, layers) ==
    [lists |-> Append(lists, lists[layers[Len(layers)]]), ref |-> Len(lists) + 1]

\* cache = list()
NewList(lists) == [lists |-> Append(lists, <<>>), ref |-> Len(lists) + 1]

\* [[d.strip() for d in c.split('*')] for c in x.split(',')]
Decode(x) ==
    LET cs == split(x, ",")
    IN  [i \in DOMAIN cs |->
            LET ds == split(cs[i], "*") IN [j \in DOMAIN ds |-> strip(ds[j])]]

RECURSIVE ParseLines(_, _, _, _)
\* the loop of get_content_description (inkscapeslide.py lines 296-310);
\* ok = FALSE stands for the IndexError of layers[-1] on an empty list
ParseLines(content_lines, lists, entries, layers) ==
    IF content_lines = <<>>
    THEN [ok |-> TRUE, lists |-> lists, entries |-> entries, layers |-> layers]
    ELSE LET stripped == strip(Head(content_lines))
             plus == startswith(stripped, "+")
             x == IF plus THEN Tail(stripped) ELSE stripped
             cache == IF plus THEN CopyLast(lists, layers) ELSE NewList(lists)
             decoded == Decode(x)
             refs == [i \in DOMAIN decoded |-> Len(entries) + i]
         IN  IF plus /\ layers = <<>>
             THEN [ok |-> FALSE, lists |-> lists, entries |-> entries,
                   layers |-> layers]
             ELSE ParseLines(Tail(content_lines),
                             [cache.lists EXCEPT ![cache.ref] = @ \o refs],
                             entries \o decoded,
                             Append(layers, cache.ref))

\* InkscapeSlide.get_content_description
get_content_description(content_lines) == ParseLines(content_lines, <<>>, <<>>, <<>>)

\* a default opacity other than the one of the code
DefaultOpacityHalf == <<"0", ".", "5">>

\* layer.append('1.0') (inkscapeslide.py line 161)
DefaultOpacity == <<"1", ".", "0">>

\* what the user means by one entry of a line, and how it may be typed: the
\* bare name, name*value, and name*value with blanks around both
Items ==
    {[name |-> <<"A">>, value |-> <<>>, pad |-> FALSE],
     [name |-> <<"A">>, value |-> <<"0", ".", "5">>, pad |-> FALSE],
     [name |-> <<"B">>, value |-> <<"0", ".", "5">>, pad |-> TRUE]}

\* the lines: one or two entries, with or without the leading +
LegacyLines ==
    {[plus |-> b, items |-> it] :
        b \in BOOLEAN,
        it \in {<<a>> : a \in Items} \cup {<<a, c>> : a, c \in Items}}

Padded(s, pad) == IF pad THEN <<" ">> \o s \o <<" ">> ELSE s

\* the characters typed for one entry
ItemText(a) ==
    Padded(a.name, a.pad)
        \o (IF a.value = <<>> THEN <<>> ELSE <<"*">> \o Padded(a.value, a.pad))

\* the characters typed for one line
LineText(l) ==
    (IF l.plus THEN <<"+">> ELSE <<>>)
        \o ItemText(l.items[1])
        \o (IF Len(l.items) = 2 THEN <<",">> \o ItemText(l.items[2]) ELSE <<>>)

NoLegacy ==
    [meant |-> <<>>, content_lines |-> <<>>, lists |-> <<>>, entries |-> <<>>,
     content |-> <<>>, shown |-> <<>>, pc |-> "idle"]

(***************************************************************************)
(* State.                                                                  *)
(***************************************************************************)
VARIABLES
    file,        \* the input document on disk
    flat,        \* --flat
    temp,        \* -t/--temp: do not keep the temp folder
    numWorkers,  \* -p/--parallel-workers
    runs,        \* invocations of InkSlides.run so far
    edits,       \* edits of the input file so far
    crashes,     \* renderer processes that died unexpectedly so far
    pc,          \* where InkSlides.run stands
    doc,         \* self.doc
    content,     \* self.content: the plan
    svg_files,   \* self.svg_files: (path, cached) per frame
    only_cached, \* the local of create_slides_svg
    err,         \* the exception that ended InkSlides.run ("" = none)
    pdf_files,   \* self.pdf_files
    sent,        \* shutdown sentinels put so far (the loop of line 129)
    joined,      \* workers joined so far (the loop of line 133)
    fs,          \* the files of self.tmp_folder
    tmp_exists,  \* self.tmp_folder exists on disk
    out,         \* the file at self.f_output
    queue,       \* request_queue
    wpc,         \* where each InkscapeWorker stands
    ink,         \* each worker's inkscape process and its two pipes
    deq,         \* history: how often each frame's job was taken from the queue
    cmds,        \* history: how many render commands were written per frame
    ready,       \* history: the worker saw '>' and wrote no command since
    eof,         \* history: a read of the worker returned end-of-stream
    rendered,    \* history: how many renders of each frame have finished
    overtaken,   \* history: a frame was rendered before an earlier frame of the run
    merged,      \* history: the list handed to MergerWrapper.merge in this run
    hist,        \* history: the documents parsed by this run and by the one before
    legacy,      \* the content grammar of inkscapeslide.py: its input and its lists
    watch,       \* InkSlides.runwatch: its locals and the mtime of the input file
    tools        \* MergerWrapper.find_merging_tool alone: the machine and the result

inputs == <<file, flat, temp, numWorkers, runs, edits, crashes>>
coord == <<pc, err, doc, content, svg_files, only_cached, pdf_files, sent, joined>>
disk == <<fs, tmp_exists, out>>
pool == <<queue, wpc, ink>>
history == <<deq, cmds, ready, eof, rendered, overtaken, merged, hist>>
\* what the run of the pipeline never touches
apart == <<legacy, watch, tools>>
vars == <<inputs, coord, disk, pool, history, legacy, watch, tools>>

Workers == 1..numWorkers

EmptyFS == [p \in {} |-> <<>>]

NoOutput == [exists |-> FALSE, partial |-> FALSE, pages |-> <<>>]

\* the shutdown sentinel and a render job, as they travel through the queue
None == [kind |-> "None", svg_file |-> svg_path(0), pdf_file_name |-> svg_path(0),
         cached |-> FALSE]

\* a job that has lost its flag: every frame is taken for a cache miss
JobUnflagged(svg_file, pdf_file, cached) ==
    [kind |-> "job", svg_file |-> svg_file, pdf_file_name |-> pdf_file,
     cached |-> FALSE]

Job(svg_file, pdf_file, cached) ==
    [kind |-> "job", svg_file |-> svg_file, pdf_file_name |-> pdf_file,
     cached |-> cached]

NoInk == [state |-> "none", booted |-> FALSE, stdin |-> <<>>, stdout |-> <<>>]

NotCalled == [called |-> FALSE, found |-> FALSE, slides |-> <<>>]

Frames == 0..(Len(content) - 1)

\* find_merging_tool is not looked at alone
NoTools == [pc |-> "off", PATH |-> <<>>, importable |-> FALSE, merger |-> "None"]

\* runwatch is not running: the program was started without -w
NoWatch == [pc |-> "off", state |-> -1, mtime |-> 0, st_mtime |-> 0, built |-> -1]

Init ==
    /\ \E i \in Inputs : file = i.doc /\ flat = i.flat
    /\ temp \in BOOLEAN
    /\ numWorkers \in 0..MaxWorkers
    /\ runs = 0 /\ edits = 0 /\ crashes = 0
    /\ pc = "idle"
    /\ doc = file
    /\ content = <<>>
    /\ svg_files = <<>>
    /\ only_cached = TRUE
    /\ err = ""
    /\ pdf_files = <<>>
    /\ sent = 0 /\ joined = 0
    /\ fs = EmptyFS
    /\ tmp_exists = FALSE
    /\ out = NoOutput
    /\ queue = <<>>
    /\ wpc = [w \in Workers |-> "new"]
    /\ ink = [w \in Workers |-> NoInk]
    /\ deq = <<>> /\ cmds = <<>> /\ rendered = <<>>
    /\ overtaken = FALSE
    /\ ready = [w \in Workers |-> FALSE]
    /\ eof = [w \in Workers |-> FALSE]
    /\ merged = NotCalled
    /\ hist = [prevDone |-> FALSE, prevFile |-> file, curFile |-> file]
    /\ legacy = NoLegacy
    /\ watch = NoWatch
    /\ tools = NoTools

(***************************************************************************)
(* The user, between two runs.                                             *)
(***************************************************************************)
Returned == pc \in {"idle", "done", "failed"}

\* the user edits the input between two runs over a kept folder (the input of
\* the first run is the document the behaviour starts with; with -t a run
\* leaves no file for the next run to compare the edited input with)
BetweenRuns == pc \in {"done", "failed"} /\ runs < MaxRuns /\ ~temp

\* the layers the edits touch: the last layer of the document and the layer
\* two before it (in DocBuild a sublayer of the first slide and the slide of
\* the second section)
EditTargets(d) == {n \in Indices(d) : n \in {Len(d.layers) - 2, Len(d.layers)}}

\* the opacity in the style attribute of one layer is changed in the editor
EditOpacity(n, o) ==
    /\ BetweenRuns /\ edits < MaxEdits
    /\ n \in EditTargets(file) /\ o # file.layers[n].style.opacity
    /\ file' = [file EXCEPT !.layers[n].style.opacity = o]
    /\ edits' = edits + 1
    /\ UNCHANGED <<apart, flat, temp, numWorkers, runs, crashes, coord, disk, pool,
                 history>>

\* the text of a layer is changed in the editor
EditText(n) ==
    /\ BetweenRuns /\ edits < MaxEdits
    /\ n \in EditTargets(file) /\ file.layers[n].tok # "edited"
    /\ file' = [file EXCEPT !.layers[n].tok = "edited"]
    /\ edits' = edits + 1
    /\ UNCHANGED <<apart, flat, temp, numWorkers, runs, crashes, coord, disk, pool,
                 history>>

(***************************************************************************)
(* InkSlides.run, the coordinator.                                         *)
(***************************************************************************)
\* a setup that always starts from a fresh folder
setup_temp_folder_fresh(notkeep, files) == EmptyFS

\* InkSlides.setup_temp_folder: the files of the folder the run works in; the
\* kept folder ./.inkslides-<base> with what is in it, or a fresh mkdtemp()
setup_temp_folder(notkeep, files) == IF notkeep THEN EmptyFS ELSE files

\* InkSlides.clear_temp_folder: shutil.rmtree unless the folder is kept
clear_temp_folder(notkeep, files) == IF notkeep THEN EmptyFS ELSE files

\* lines 95-101: setup_temp_folder and parse; the user starts at most `limit`
\* runs
Begin(limit) ==
    /\ Returned /\ runs < limit
    /\ runs' = runs + 1
    /\ fs' = setup_temp_folder(temp, fs)
    /\ tmp_exists' = TRUE
    /\ LET r == IF flat THEN get_flat_layer_structure(file)
                ELSE get_layer_structure(file)
       IN  /\ content' = r.list
           /\ doc' = IF r.ok THEN hide_all_layers(file) ELSE file
           /\ pc' = IF r.ok THEN "create_slides_svg" ELSE "failed"
           /\ err' = IF r.ok THEN "" ELSE "ValueError"
    /\ svg_files' = <<>> /\ only_cached' = TRUE /\ pdf_files' = <<>>
    /\ sent' = 0 /\ joined' = 0
    /\ queue' = <<>>
    /\ wpc' = [w \in Workers |-> "new"]
    /\ ink' = [w \in Workers |-> NoInk]
    /\ deq' = <<>> /\ cmds' = <<>> /\ rendered' = <<>>
    /\ overtaken' = FALSE
    /\ ready' = [w \in Workers |-> FALSE]
    /\ eof' = [w \in Workers |-> FALSE]
    /\ merged' = NotCalled
    /\ hist' = [prevDone |-> pc = "done", prevFile |-> hist.curFile, curFile |-> file]
    /\ UNCHANGED <<tools, legacy, file, flat, temp, numWorkers, edits, crashes, out>>

\* InkSlides.run is invoked
RunBegin == Begin(MaxRuns) /\ UNCHANGED watch

NoHash == <<"none", <<>>>>

\* a materializer that shows the layers of the frame in self.doc itself
ShownInPlace(d, slide) ==
    [d EXCEPT !.layers =
        [n \in Indices(d) |->
            IF n \in Shown(d, slide) THEN show_layer(d.layers[n]) ELSE d.layers[n]]]

\* line 191: the frame works on copy.deepcopy(self.doc); what is left of
\* self.doc after the frame
AfterDeepcopy(d, slide) == d

\* one iteration of the loop of create_slides_svg (lines 186-246)
SvgStep ==
    /\ pc = "create_slides_svg" /\ Len(svg_files) < Len(content)
    /\ LET frame_num == Len(svg_files)
           slide_num == content[frame_num + 1].num
           slide == content[frame_num + 1].layers
           path == svg_path(frame_num)
           m == Materialize(doc, frame_num, slide_num, slide)
           written == (path :> m.bytes) @@ fs
           cached == IsCached(exists(fs, path),
                              IF exists(fs, path) THEN Sha256(fs[path]) ELSE NoHash,
                              Sha256(written[path]),
                              exists(written, pdf_from_svg(path)))
       IN  IF m.ok
           THEN /\ fs' = written
                /\ svg_files' = Append(svg_files, [path |-> path, cached |-> cached])
                /\ only_cached' = (only_cached /\ cached)
                /\ pc' = pc /\ err' = err
                /\ doc' = AfterDeepcopy(doc, slide)
           ELSE /\ pc' = "failed"
                /\ err' = IF 0 \in Shown(doc, slide) THEN "KeyError" ELSE "IndexError"
                /\ UNCHANGED <<fs, svg_files, only_cached, doc>>
    /\ UNCHANGED <<apart, inputs, content, pdf_files, sent, joined, tmp_exists, out,
                   pool, history>>

\* a create_slides_svg that may return before its loop has come to the end
SvgReturnEarly ==
    /\ pc = "create_slides_svg"
    /\ pc' = IF only_cached THEN "done" ELSE "spawn"
    /\ UNCHANGED <<apart, inputs, err, doc, content, svg_files, only_cached, pdf_files,
                   sent, joined, disk, pool, history>>

\* lines 104-108: the result of create_slides_svg decides
SvgReturn ==
    /\ pc = "create_slides_svg" /\ Len(svg_files) = Len(content)
    /\ pc' = IF only_cached THEN "done" ELSE "spawn"
    /\ UNCHANGED <<apart, inputs, err, doc, content, svg_files, only_cached, pdf_files, sent,
                   joined, disk, pool, history>>

\* lines 112-122: the workers are created and started
Spawn ==
    /\ pc = "spawn"
    /\ wpc' = [w \in Workers |-> "run"]
    /\ queue' = <<>>
    /\ pdf_files' = <<>>
    /\ deq' = [i \in Frames |-> 0]
    /\ cmds' = [i \in Frames |-> 0]
    /\ rendered' = [i \in Frames |-> 0]
    /\ pc' = "pool"
    /\ UNCHANGED <<apart, inputs, err, doc, content, svg_files, only_cached, sent, joined, disk,
                   ink, ready, eof, overtaken, merged, hist>>

\* a queue that hands out the newest item first
QueuePutLifo(q, item) == <<item>> \o q

\* Queue.put: first in, first out
QueuePut(q, item) == Append(q, item)

\* a list built in another order than the frames: insert(0, pdf_file)
PdfFilesPrepend(list, pdf_file) == <<pdf_file>> \o list

\* self.pdf_files.append(pdf_file)
PdfFilesAppend(list, pdf_file) == Append(list, pdf_file)

\* one iteration of the loop of lines 123-126
PutJob ==
    /\ pc = "pool" /\ Len(pdf_files) < Len(svg_files)
    /\ LET svg_file == svg_files[Len(pdf_files) + 1].path
           cached == svg_files[Len(pdf_files) + 1].cached
           pdf_file == pdf_from_svg(svg_file)
       IN  /\ pdf_files' = PdfFilesAppend(pdf_files, pdf_file)
           /\ queue' = QueuePut(queue, Job(svg_file, pdf_file, cached))
    /\ UNCHANGED <<apart, inputs, err, pc, doc, content, svg_files, only_cached, sent, joined,
                   disk, wpc, ink, history>>

\* the jobs are all on the queue
Populated == Len(pdf_files) = Len(svg_files)

\* one iteration of the loop of lines 129-130
PutSentinel ==
    /\ pc = "pool" /\ Populated /\ sent < numWorkers
    /\ queue' = QueuePut(queue, None)
    /\ sent' = sent + 1
    /\ UNCHANGED <<apart, inputs, err, pc, doc, content, svg_files, only_cached, pdf_files,
                   joined, disk, wpc, ink, history>>

\* a join that returns whether or not the worker process has ended
ExitedOrNot(w) == TRUE

\* a worker process has ended (its run returned or raised)
Exited(w) == wpc[w] \in {"exited", "raised"}

\* one iteration of the loop of lines 133-134: w.join() returns
Join ==
    /\ pc = "pool" /\ Populated /\ sent = numWorkers /\ joined < numWorkers
    /\ Exited(joined + 1)
    /\ joined' = joined + 1
    /\ UNCHANGED <<apart, inputs, err, pc, doc, content, svg_files, only_cached, pdf_files,
                   sent, disk, pool, history>>

\* what a merger leaves at out_file when a slide cannot be read: PyPDF2 and
\* pdfunite open the output only after all slides are read; gs may have
\* written the pages before the unreadable one
FailedOutputs(tool, pages) ==
    {out} \cup (IF tool = "gs"
                THEN {[exists |-> TRUE, partial |-> TRUE, pages |-> pages]}
                ELSE {})

\* MergerWrapper.__init__ (merge.py line 109) when find_merging_tool returns
\* None: None() raises before the test of line 111 is reached
NoneNotCallable == "TypeError"

\* lines 136-137: join_slides_pdf
Merge ==
    /\ pc = "pool" /\ Populated /\ sent = numWorkers /\ joined = numWorkers
    /\ \E avail \in SUBSET Range(TOOLS) :
        LET tool == find_merging_tool(avail)
            readable == {i \in DOMAIN pdf_files : exists(fs, pdf_files[i])}
            firstbad == CHOOSE i \in 1..(Len(pdf_files) + 1) :
                            /\ i \notin readable
                            /\ \A j \in 1..(i - 1) : j \in readable
        IN  /\ merged' = [called |-> TRUE, found |-> tool # "None", slides |-> pdf_files]
            /\ IF tool = "None"
               THEN pc' = "failed" /\ err' = NoneNotCallable /\ out' = out
               ELSE IF readable = DOMAIN pdf_files
               THEN /\ pc' = "clear" /\ err' = err
                    /\ out' = [exists |-> TRUE, partial |-> FALSE,
                               pages |-> [i \in DOMAIN pdf_files |-> fs[pdf_files[i]]]]
               ELSE /\ pc' = "failed" /\ err' = "MergeFailedException"
                    /\ out' \in FailedOutputs(tool,
                           [i \in 1..(firstbad - 1) |-> fs[pdf_files[i]]])
    /\ UNCHANGED <<apart, inputs, doc, content, svg_files, only_cached, pdf_files, sent,
                   joined, fs, tmp_exists, pool, deq, cmds, ready, eof, rendered,
                   overtaken, hist>>

\* lines 139-142: clear_temp_folder
Clear ==
    /\ pc = "clear"
    /\ fs' = clear_temp_folder(temp, fs)
    /\ tmp_exists' = ~temp
    /\ pc' = "done"
    /\ UNCHANGED <<apart, inputs, err, doc, content, svg_files, only_cached, pdf_files, sent,
                   joined, out, pool, history>>

(***************************************************************************)
(* InkscapeWorker.run, one process per worker.                             *)
(***************************************************************************)
\* the frame a queue item is about
FrameOf(item) == item.svg_file.stem

\* a wait that takes any byte for the ready sentinel
IsReadyAnyByte(byte) == TRUE

\* a wait that never takes a byte for the ready sentinel
IsReadyNever(byte) == FALSE

\* the test of wait_for_inkscape (line 11): the byte is the ready sentinel
IsReadySentinel(byte) == byte = ">"

\* the test of line 30 inverted: `if cached`
NeedsRenderInverted(cached) == cached

\* line 30: `if not cached`
NeedsRender(cached) == ~cached

\* a worker that takes the next item right after writing a command
AfterWriteNoWait == "get"

\* line 35: after a command the worker waits for the next ready sentinel
AfterWrite == "wait"

\* Queue.get: the oldest item
QueueGet(q) == Head(q)

\* '-A "{1}" "{0}"\n'.format(svg_file, pdf_file_name)
Command(svg_file, pdf_file_name) == [pdf |-> pdf_file_name, svg |-> svg_file]

\* lines 16-19: the worker starts its inkscape process
WPopen(w) ==
    /\ wpc[w] = "run"
    /\ ink' = [ink EXCEPT ![w] = [NoInk EXCEPT !.state = "alive"]]
    /\ wpc' = [wpc EXCEPT ![w] = "startup"]
    /\ UNCHANGED <<apart, inputs, coord, disk, queue, history>>

\* one self.ink.stdout.read(1) of wait_for_inkscape (lines 10-12, called at
\* lines 22 and 35).  The read blocks while the pipe is empty and the process
\* lives; it returns b'' at end-of-stream, which is not the sentinel either.
WRead(w) ==
    /\ wpc[w] \in {"startup", "wait"}
    /\ ink[w].stdout # <<>> \/ ink[w].state = "dead"
    /\ IF ink[w].stdout # <<>>
       THEN LET byte == Head(ink[w].stdout)
            IN  /\ ink' = [ink EXCEPT ![w].stdout = Tail(@)]
                /\ wpc' = [wpc EXCEPT ![w] = IF IsReadySentinel(byte) THEN "get" ELSE @]
                /\ ready' = [ready EXCEPT ![w] = (byte = ">")]
                /\ eof' = eof
       ELSE /\ eof' = [eof EXCEPT ![w] = TRUE]
            /\ UNCHANGED <<ink, wpc, ready>>
    /\ UNCHANGED <<apart, inputs, coord, disk, queue, deq, cmds, rendered, overtaken,
                   merged, hist>>

\* lines 24-39, one pass of the loop up to the wait: the next item of
\* iter(self.queue.get, None); None ends the loop and run returns; a cached job
\* is skipped (lines 38-39); for any other job the command is written and
\* flushed (lines 30-33).  Writing to the pipe of a process that is gone
\* raises BrokenPipeError, which ends the worker process.
WGet(w) ==
    /\ wpc[w] = "get" /\ queue # <<>>
    /\ LET item == QueueGet(queue)
       IN  /\ queue' = Tail(queue)
           /\ deq' = IF item.kind = "None" THEN deq
                     ELSE [deq EXCEPT ![FrameOf(item)] = @ + 1]
           /\ IF item.kind = "None"
              THEN /\ wpc' = [wpc EXCEPT ![w] = "exited"]
                   /\ UNCHANGED <<ink, cmds, ready>>
              ELSE IF ~NeedsRender(item.cached)
              THEN UNCHANGED <<wpc, ink, cmds, ready>>
              ELSE IF ink[w].state = "alive"
              THEN /\ ink' = [ink EXCEPT ![w].stdin =
                                 Append(@, Command(item.svg_file, item.pdf_file_name))]
                   /\ cmds' = [cmds EXCEPT ![FrameOf(item)] = @ + 1]
                   /\ ready' = [ready EXCEPT ![w] = FALSE]
                   /\ wpc' = [wpc EXCEPT ![w] = AfterWrite]
              ELSE /\ wpc' = [wpc EXCEPT ![w] = "raised"]
                   /\ UNCHANGED <<ink, cmds, ready>>
    /\ UNCHANGED <<apart, inputs, coord, disk, eof, rendered, overtaken, merged, hist>>

(***************************************************************************)
(* inkscape --shell, the renderer process of a worker.                     *)
(***************************************************************************)
\* the page inkscape draws from an intermediate file
Render(bytes) == [page |-> bytes]

\* what the shell prints when it has started: a line of text, then the prompt
Banner == <<"x", ">">>

\* what the shell prints when it has carried out a command: the prompt
Prompt == <<">">>

\* the shell has started
InkBoot(w) ==
    /\ ink[w].state = "alive" /\ ~ink[w].booted
    /\ ink' = [ink EXCEPT ![w].booted = TRUE, ![w].stdout = @ \o Banner]
    /\ UNCHANGED <<apart, inputs, coord, disk, queue, wpc, history>>

\* the shell reads one command line, exports the PDF and prompts again
InkExec(w) ==
    /\ ink[w].state = "alive" /\ ink[w].booted /\ ink[w].stdin # <<>>
    /\ LET c == Head(ink[w].stdin)
       IN  /\ fs' = IF exists(fs, c.svg) THEN (c.pdf :> Render(fs[c.svg])) @@ fs
                     ELSE fs
           /\ rendered' = [rendered EXCEPT ![c.svg.stem] = @ + 1]
           /\ overtaken' = (overtaken \/ \E j \in 0..(c.svg.stem - 1) :
                                ~svg_files[j + 1].cached /\ rendered[j] = 0)
    /\ ink' = [ink EXCEPT ![w].stdin = Tail(@), ![w].stdout = @ \o Prompt]
    /\ UNCHANGED <<apart, inputs, coord, tmp_exists, out, queue, wpc, deq, cmds, ready,
                   eof, merged, hist>>

\* the worker process has ended, which closes the pipes: the shell reads
\* end-of-file on its input and leaves
InkEof(w) ==
    /\ ink[w].state = "alive" /\ Exited(w) /\ ink[w].stdin = <<>>
    /\ ink' = [ink EXCEPT ![w].state = "dead"]
    /\ UNCHANGED <<apart, inputs, coord, disk, queue, wpc, history>>

\* the renderer process dies unexpectedly: unread commands are lost, the bytes
\* it had printed stay readable
InkCrash(w) ==
    /\ ink[w].state = "alive" /\ ~Exited(w) /\ crashes < MaxCrashes
    /\ ink' = [ink EXCEPT ![w].state = "dead", ![w].stdin = <<>>]
    /\ crashes' = crashes + 1
    /\ UNCHANGED <<apart, file, flat, temp, numWorkers, runs, edits, coord, disk, queue,
                   wpc, history>>

(***************************************************************************)
(* Specifications.  Spec: every renderer keeps to the protocol.  SpecCrash: *)
(* renderer processes may also die.                                        *)
(***************************************************************************)
Next ==
    \/ \E n \in EditTargets(file), o \in Opacities : EditOpacity(n, o)
    \/ \E n \in EditTargets(file) : EditText(n)
    \/ RunBegin
    \/ SvgStep
    \/ SvgReturn
    \/ Spawn
    \/ PutJob
    \/ PutSentinel
    \/ Join
    \/ Merge
    \/ Clear
    \/ \E w \in Workers : WPopen(w)
    \/ \E w \in Workers : WRead(w)
    \/ \E w \in Workers : WGet(w)
    \/ \E w \in Workers : InkBoot(w)
    \/ \E w \in Workers : InkExec(w)
    \/ \E w \in Workers : InkEof(w)

Spec == Init /\ [][Next]_vars

NextCrash == Next \/ \E w \in Workers : InkCrash(w)

SpecCrash == Init /\ [][NextCrash]_vars

(***************************************************************************)
(* SpecPlan: one run of the coordinator up to the populated queue, over    *)
(* the generated documents, in structured and in flat mode.                *)
(***************************************************************************)
InitPlan ==
    /\ \E n \in 1..MaxLayers :
         \E p \in Shapes(n), k \in 0..n, l \in ImportLines(n), m \in MasterLines(n) :
            file = GenDoc(p, k, l, m)
    /\ flat \in BOOLEAN
    /\ temp = FALSE
    /\ numWorkers = 1
    /\ runs = 0 /\ edits = 0 /\ crashes = 0
    /\ pc = "idle"
    /\ err = ""
    /\ doc = file
    /\ content = <<>>
    /\ svg_files = <<>>
    /\ only_cached = TRUE
    /\ pdf_files = <<>>
    /\ sent = 0 /\ joined = 0
    /\ fs = EmptyFS
    /\ tmp_exists = FALSE
    /\ out = NoOutput
    /\ queue = <<>>
    /\ wpc = [w \in Workers |-> "new"]
    /\ ink = [w \in Workers |-> NoInk]
    /\ deq = <<>> /\ cmds = <<>> /\ rendered = <<>>
    /\ overtaken = FALSE
    /\ ready = [w \in Workers |-> FALSE]
    /\ eof = [w \in Workers |-> FALSE]
    /\ merged = NotCalled
    /\ hist = [prevDone |-> FALSE, prevFile |-> file, curFile |-> file]
    /\ legacy = NoLegacy
    /\ watch = NoWatch
    /\ tools = NoTools

\* the first invocation of InkSlides.run
PlanBegin == runs = 0 /\ RunBegin

NextPlan == PlanBegin \/ SvgStep \/ SvgReturn \/ Spawn \/ PutJob

SpecPlan == InitPlan /\ [][NextPlan]_vars

(***************************************************************************)
(* SpecFrames: the plan compiler and the materializer alone, over the same *)
(* documents as SpecPlan: one run up to the return of create_slides_svg.   *)
(***************************************************************************)
NextFrames == PlanBegin \/ SvgStep \/ SvgReturn

SpecFrames == InitPlan /\ [][NextFrames]_vars

(***************************************************************************)
(* SpecTwins: as SpecPlan, in structured mode, over the layer trees of at  *)
(* most MaxLayers layers without directives in which two layers under      *)
(* different parents carry the same name.                                  *)
(***************************************************************************)
\* the document of shape p in which layer b carries the name of layer a
TwinDoc(p, a, b) ==
    [GenDoc(p, 0, <<>>, <<>>) EXCEPT !.layers[b].label = LabelOf(a)]

InitTwins ==
    /\ \E n \in 2..MaxLayers :
         \E p \in Shapes(n), a \in 1..n, b \in 1..n :
            a < b /\ p[a] # p[b] /\ file = TwinDoc(p, a, b)
    /\ flat = FALSE
    /\ temp = FALSE
    /\ numWorkers = 1
    /\ runs = 0 /\ edits = 0 /\ crashes = 0
    /\ pc = "idle"
    /\ err = ""
    /\ doc = file
    /\ content = <<>>
    /\ svg_files = <<>>
    /\ only_cached = TRUE
    /\ pdf_files = <<>>
    /\ sent = 0 /\ joined = 0
    /\ fs = EmptyFS
    /\ tmp_exists = FALSE
    /\ out = NoOutput
    /\ queue = <<>>
    /\ wpc = [w \in Workers |-> "new"]
    /\ ink = [w \in Workers |-> NoInk]
    /\ deq = <<>> /\ cmds = <<>> /\ rendered = <<>>
    /\ overtaken = FALSE
    /\ ready = [w \in Workers |-> FALSE]
    /\ eof = [w \in Workers |-> FALSE]
    /\ merged = NotCalled
    /\ hist = [prevDone |-> FALSE, prevFile |-> file, curFile |-> file]
    /\ legacy = NoLegacy
    /\ watch = NoWatch
    /\ tools = NoTools

SpecTwins == InitTwins /\ [][NextPlan]_vars

(***************************************************************************)
(* SpecLegacy: the content grammar of inkscapeslide.py on every text of at *)
(* most MaxLegacyLines lines; the pipeline of inkslides stays idle.  The   *)
(* layers A and B that the lines name exist in the document.               *)
(***************************************************************************)
InitLegacy ==
    /\ \E n \in 1..MaxLegacyLines : \E m \in [1..n -> LegacyLines] :
          legacy = [NoLegacy EXCEPT !.meant = m,
                                    !.content_lines = [i \in 1..n |-> LineText(m[i])]]
    /\ file = DocEmpty /\ flat = FALSE /\ temp = FALSE /\ numWorkers = 0
    /\ runs = 0 /\ edits = 0 /\ crashes = 0
    /\ pc = "idle"
    /\ err = ""
    /\ doc = file
    /\ content = <<>>
    /\ svg_files = <<>>
    /\ only_cached = TRUE
    /\ pdf_files = <<>>
    /\ sent = 0 /\ joined = 0
    /\ fs = EmptyFS
    /\ tmp_exists = FALSE
    /\ out = NoOutput
    /\ queue = <<>>
    /\ wpc = [w \in Workers |-> "new"]
    /\ ink = [w \in Workers |-> NoInk]
    /\ deq = <<>> /\ cmds = <<>> /\ rendered = <<>>
    /\ overtaken = FALSE
    /\ ready = [w \in Workers |-> FALSE]
    /\ eof = [w \in Workers |-> FALSE]
    /\ merged = NotCalled
    /\ hist = [prevDone |-> FALSE, prevFile |-> file, curFile |-> file]
    /\ watch = NoWatch
    /\ tools = NoTools

\* InkscapeSlide.parse: self.content = self.get_content_description()
LegacyParse ==
    /\ legacy.pc = "idle"
    /\ LET r == get_content_description(legacy.content_lines)
       IN  legacy' = [legacy EXCEPT !.lists = r.lists, !.entries = r.entries,
                                    !.content = r.layers,
                                    !.pc = IF r.ok THEN "parsed" ELSE "failed"]
    /\ UNCHANGED <<tools, watch, inputs, coord, disk, pool, history>>

\* one iteration of the loop of InkscapeSlide.create_slides_svg over
\* self.content (inkscapeslide.py lines 150-163): an entry without a value
\* gets the default appended, and show_layer is called with the name and the
\* value of every entry of the slide
LegacyShow ==
    /\ legacy.pc = "parsed" /\ Len(legacy.shown) < Len(legacy.content)
    /\ LET slide == legacy.lists[legacy.content[Len(legacy.shown) + 1]]
           appended == [r \in DOMAIN legacy.entries |->
                           IF r \in Range(slide) /\ Len(legacy.entries[r]) = 1
                           THEN Append(legacy.entries[r], DefaultOpacity)
                           ELSE legacy.entries[r]]
       IN  legacy' = [legacy EXCEPT
                         !.entries = appended,
                         !.shown = Append(@, [k \in DOMAIN slide |->
                                       <<appended[slide[k]][1], appended[slide[k]][2]>>])]
    /\ UNCHANGED <<tools, watch, inputs, coord, disk, pool, history>>

NextLegacy == LegacyParse \/ LegacyShow

SpecLegacy == InitLegacy /\ [][NextLegacy]_vars

(***************************************************************************)
(* SpecRerun: up to MaxReruns runs over the kept folder of one document    *)
(* with a pool of one worker, whose renderer may die.                      *)
(***************************************************************************)
InitRerun == Init /\ file = DocBuild /\ ~flat /\ ~temp /\ numWorkers = 1

\* InkSlides.run is invoked once more
RerunBegin == Begin(MaxReruns) /\ UNCHANGED watch

NextRerun ==
    \/ \E n \in EditTargets(file), o \in Opacities : EditOpacity(n, o)
    \/ \E n \in EditTargets(file) : EditText(n)
    \/ RerunBegin
    \/ SvgStep
    \/ SvgReturn
    \/ Spawn
    \/ PutJob
    \/ PutSentinel
    \/ Join
    \/ Merge
    \/ Clear
    \/ \E w \in Workers : WPopen(w)
    \/ \E w \in Workers : WRead(w)
    \/ \E w \in Workers : WGet(w)
    \/ \E w \in Workers : InkBoot(w)
    \/ \E w \in Workers : InkExec(w)
    \/ \E w \in Workers : InkEof(w)
    \/ \E w \in Workers : InkCrash(w)

SpecRerun == InitRerun /\ [][NextRerun]_vars

(***************************************************************************)
(* SpecLive: one run with a pool of one worker or more, under fair         *)
(* scheduling.  The coordinator, every worker process and every renderer   *)
(* process is an operating system process of its own that gets to run when *)
(* it can take a step; a renderer that can boot or carry out a command     *)
(* does so and prints its prompt.                                          *)
(***************************************************************************)
InitLive == Init /\ numWorkers >= 1

\* the one invocation of InkSlides.run
LiveBegin == runs = 0 /\ RunBegin

NextLive ==
    \/ LiveBegin
    \/ SvgStep
    \/ SvgReturn
    \/ Spawn
    \/ PutJob
    \/ PutSentinel
    \/ Join
    \/ Merge
    \/ Clear
    \/ \E w \in Workers : WPopen(w)
    \/ \E w \in Workers : WRead(w)
    \/ \E w \in Workers : WGet(w)
    \/ \E w \in Workers : InkBoot(w)
    \/ \E w \in Workers : InkExec(w)
    \/ \E w \in Workers : InkEof(w)

Fairness ==
    /\ WF_vars(SvgStep) /\ WF_vars(SvgReturn) /\ WF_vars(Spawn)
    /\ WF_vars(PutJob) /\ WF_vars(PutSentinel) /\ WF_vars(Join)
    /\ WF_vars(Merge) /\ WF_vars(Clear)
    /\ \A w \in 1..MaxWorkers :
          /\ WF_vars(w \in Workers /\ WPopen(w))
          /\ WF_vars(w \in Workers /\ WRead(w))
          /\ WF_vars(w \in Workers /\ WGet(w))
          /\ WF_vars(w \in Workers /\ InkBoot(w))
          /\ WF_vars(w \in Workers /\ InkExec(w))

SpecLive == InitLive /\ [][NextLive]_vars /\ Fairness

(***************************************************************************)
(* SpecWatch: the program started with -w on DocBuild with a kept folder   *)
(* and one worker.  runwatch polls the mtime of the input file and calls   *)
(* run when it differs from the mtime it compiled last; the user saves the *)
(* file at any moment, also while run is at work, and every save moves the *)
(* mtime forward.  A renderer may die.  The scheduling is fair as in       *)
(* SpecLive, and the watch loop is a part of the coordinator process.      *)
(***************************************************************************)
InitWatch == Init /\ file = DocBuild /\ ~flat /\ ~temp /\ numWorkers = 1

\* lines 72-76: state = None
WatchStart ==
    /\ watch.pc = "off"
    /\ watch' = [watch EXCEPT !.pc = "poll", !.state = -1]
    /\ UNCHANGED <<inputs, coord, disk, pool, history, legacy, tools>>

\* lines 79-81: mtime = os.stat(file).st_mtime; if mtime != state
WatchPoll ==
    /\ watch.pc = "poll"
    /\ watch' = [watch EXCEPT !.mtime = watch.st_mtime,
                              !.pc = IF watch.st_mtime # watch.state
                                     THEN "call" ELSE "sleep"]
    /\ UNCHANGED <<inputs, coord, disk, pool, history, legacy, tools>>

\* line 83: self.run(file, temp) is called and reads the input file; run is
\* called once and then once per mtime seen, less than MaxEdits + 2 times
WatchBegin ==
    /\ watch.pc = "call"
    /\ Begin(MaxEdits + 2)
    /\ watch' = [watch EXCEPT !.pc = "run", !.built = watch.st_mtime]

\* lines 83-84: run has returned, state = mtime; an exception of run is not
\* caught and ends runwatch
WatchReturn ==
    /\ watch.pc = "run" /\ pc \in {"done", "failed"}
    /\ watch' = IF pc = "done"
                THEN [watch EXCEPT !.pc = "sleep", !.state = watch.mtime]
                ELSE [watch EXCEPT !.pc = "raised"]
    /\ UNCHANGED <<inputs, coord, disk, pool, history, legacy, tools>>

\* line 86: time.sleep(.5), and the loop goes round
WatchSleep ==
    /\ watch.pc = "sleep"
    /\ watch' = [watch EXCEPT !.pc = "poll"]
    /\ UNCHANGED <<inputs, coord, disk, pool, history, legacy, tools>>

\* the user saves the input file with the text of one layer changed, at any
\* moment; the file system gives the file a later mtime
WatchModify(n) ==
    /\ watch.pc # "off" /\ edits < MaxEdits
    /\ n \in EditTargets(file) /\ file.layers[n].tok # "edited"
    /\ file' = [file EXCEPT !.layers[n].tok = "edited"]
    /\ edits' = edits + 1
    /\ watch' = [watch EXCEPT !.st_mtime = watch.st_mtime + 1]
    /\ UNCHANGED <<tools, legacy, flat, temp, numWorkers, runs, crashes, coord, disk,
                   pool, history>>

NextWatch ==
    \/ WatchStart
    \/ WatchPoll
    \/ WatchBegin
    \/ WatchReturn
    \/ WatchSleep
    \/ \E n \in EditTargets(file) : WatchModify(n)
    \/ SvgStep
    \/ SvgReturn
    \/ Spawn
    \/ PutJob
    \/ PutSentinel
    \/ Join
    \/ Merge
    \/ Clear
    \/ \E w \in Workers : WPopen(w)
    \/ \E w \in Workers : WRead(w)
    \/ \E w \in Workers : WGet(w)
    \/ \E w \in Workers : InkBoot(w)
    \/ \E w \in Workers : InkExec(w)
    \/ \E w \in Workers : InkEof(w)
    \/ \E w \in Workers : InkCrash(w)

WatchFairness ==
    /\ WF_vars(WatchStart) /\ WF_vars(WatchPoll) /\ WF_vars(WatchBegin)
    /\ WF_vars(WatchReturn) /\ WF_vars(WatchSleep)

SpecWatch == InitWatch /\ [][NextWatch]_vars /\ Fairness /\ WatchFairness

(***************************************************************************)
(* SpecTools: MergerWrapper.find_merging_tool alone, on every machine with *)
(* at most MaxPath directories on PATH, each holding pdfunite and gs as an *)
(* executable, as a file that is not executable, or not at all, and with   *)
(* PyPDF2 importable or not.  The pipeline stays idle.                     *)
(***************************************************************************)
InitTools ==
    /\ \E n \in 0..MaxPath : \E p \in [1..n -> Dirs], i \in BOOLEAN :
          tools = [pc |-> "idle", PATH |-> p, importable |-> i, merger |-> "None"]
    /\ file = DocEmpty /\ flat = FALSE /\ temp = FALSE /\ numWorkers = 0
    /\ runs = 0 /\ edits = 0 /\ crashes = 0
    /\ pc = "idle"
    /\ err = ""
    /\ doc = file
    /\ content = <<>>
    /\ svg_files = <<>>
    /\ only_cached = TRUE
    /\ pdf_files = <<>>
    /\ sent = 0 /\ joined = 0
    /\ fs = EmptyFS
    /\ tmp_exists = FALSE
    /\ out = NoOutput
    /\ queue = <<>>
    /\ wpc = [w \in Workers |-> "new"]
    /\ ink = [w \in Workers |-> NoInk]
    /\ deq = <<>> /\ cmds = <<>> /\ rendered = <<>>
    /\ overtaken = FALSE
    /\ ready = [w \in Workers |-> FALSE]
    /\ eof = [w \in Workers |-> FALSE]
    /\ merged = NotCalled
    /\ hist = [prevDone |-> FALSE, prevFile |-> file, curFile |-> file]
    /\ legacy = NoLegacy
    /\ watch = NoWatch

\* self.find_merging_tool() (merge.py line 109)
FindTool ==
    /\ tools.pc = "idle"
    /\ tools' = [tools EXCEPT
                    !.pc = "found",
                    !.merger = find_merging_tool(Available(tools.PATH, tools.importable))]
    /\ UNCHANGED <<inputs, coord, disk, pool, history, legacy, watch>>

NextTools == FindTool

SpecTools == InitTools /\ [][NextTools]_vars

(***************************************************************************)
(* Properties.                                                             *)
(***************************************************************************)
\* the artifact path of frame i
ArtifactPath(i) == [stem |-> i, ext |-> "pdf"]

\* the intermediate path of frame i
IntermediatePath(i) == [stem |-> i, ext |-> "svg"]

\* join() has returned for every worker and join_slides_pdf is about to run
AllJoined == pc = "pool" /\ Populated /\ sent = numWorkers /\ joined = numWorkers

\* the frames of the run that were classified so far, by classification
Hits == {i \in 0..(Len(svg_files) - 1) : svg_files[i + 1].cached}

Misses == {i \in 0..(Len(svg_files) - 1) : ~svg_files[i + 1].cached}

\* this run works on the folder a run that returned normally has left
AfterCompletedRun == runs >= 2 /\ hist.prevDone /\ ~temp

\* C1: the list handed to the merge stage (and the list the coordinator
\* holds once every worker is joined) is the artifact paths of the frames
\* 0..n-1 of the plan in increasing frame index, whatever order the renders
\* finished in.
C1_MergeListInFrameOrder ==
    LET planned == [i \in 1..Len(content) |-> ArtifactPath(i - 1)]
    IN  /\ AllJoined => pdf_files = planned
        /\ merged.called => merged.slides = planned

\* a merge of hits and misses whose renders finished out of frame order
C1_Witness ==
    merged.called /\ overtaken /\ Hits # {} /\ Cardinality(Misses) >= 2

\* C2: with a pool of at least one worker, once every worker is joined (and
\* when the run has returned with its folder kept) the artifact of every
\* frame of the plan exists.
C2_AllArtifactsExist ==
    (numWorkers >= 1 /\ (AllJoined \/ pc = "clear" \/ (pc = "done" /\ ~temp)))
        => \A i \in Frames : exists(fs, ArtifactPath(i))

\* two workers have rendered three frames, not in frame order
C2_Witness ==
    AllJoined /\ numWorkers = 2 /\ overtaken /\ Len(content) = 3
    /\ \A i \in Frames : rendered[i] = 1

\* C3: no job is taken from the queue twice and no frame gets two render
\* commands; a cache hit gets none; and once every worker of a pool of at
\* least one is joined, every job was taken exactly once and every cache miss
\* got exactly one command.
C3_ExactlyOnce ==
    /\ \A i \in DOMAIN deq :
        /\ deq[i] <= 1 /\ cmds[i] <= 1 /\ cmds[i] <= deq[i]
        /\ svg_files[i + 1].cached => cmds[i] = 0
    /\ (numWorkers >= 1 /\ AllJoined) =>
        \A i \in Frames :
            deq[i] = 1 /\ cmds[i] = (IF svg_files[i + 1].cached THEN 0 ELSE 1)

\* two workers are joined after a run with one hit and two misses
C3_Witness ==
    AllJoined /\ numWorkers = 2 /\ Cardinality(Hits) = 1 /\ Cardinality(Misses) = 2

\* C4: the step that materializes a frame classifies it as a cache hit iff
\* the artifact exists at the frame's target path, an intermediate file was
\* at the frame's path before the write, and its hash equals the hash of the
\* file after the write.
C4_CacheHitIff ==
    [][(pc = "create_slides_svg" /\ Len(svg_files') = Len(svg_files) + 1) =>
        LET p == IntermediatePath(Len(svg_files))
        IN  svg_files'[Len(svg_files')].cached <=>
                (/\ exists(fs, ArtifactPath(Len(svg_files)))
                 /\ exists(fs, p)
                 /\ Sha256(fs[p]) = Sha256(fs'[p]))]_vars

\* after an edit, over a folder whose artifacts all exist, one frame is a hit
\* and another, whose bytes have changed, is a miss
C4_Witness ==
    /\ AfterCompletedRun /\ hist.prevFile # hist.curFile
    /\ Hits # {} /\ Misses # {}
    /\ \A i \in Misses : exists(fs, ArtifactPath(i))

\* C5: a run over the kept folder of a run that returned normally, with the
\* input file unchanged, classifies every frame as a cache hit.
C5_SecondRunAllHits ==
    (AfterCompletedRun /\ hist.prevFile = hist.curFile) => Misses = {}

\* the second run has classified all three frames of the plan
C5_Witness ==
    /\ AfterCompletedRun /\ hist.prevFile = hist.curFile
    /\ Len(svg_files) = 3 /\ Len(content) = 3 /\ pc = "done"

\* the layers whose opacity differs between the input of this run and the
\* input of the run before
OpacityChanged ==
    {n \in Indices(hist.curFile) :
        hist.prevFile.layers[n].style.opacity # hist.curFile.layers[n].style.opacity}

\* C6: after the opacity of one layer was changed between two runs over a
\* kept folder, the frames that show the layer are cache misses and all
\* other frames are cache hits.
C6_OpacityInvalidatesItsFrames ==
    (/\ AfterCompletedRun /\ Len(svg_files) = Len(content)
     /\ pc \in {"create_slides_svg", "spawn", "pool", "clear", "done"}
     /\ Cardinality(OpacityChanged) = 1)
    => \A i \in Frames :
           svg_files[i + 1].cached <=>
               (OpacityChanged \cap Shown(doc, content[i + 1].layers) = {})

\* C7: when a worker has taken a shutdown sentinel, every job of the run has
\* been put and taken from the queue: only sentinels are left on it.
C7_SentinelAfterAllJobs ==
    \A w \in Workers :
        wpc[w] = "exited" =>
            /\ Populated
            /\ \A k \in DOMAIN queue : queue[k].kind = "None"
            /\ \A i \in Frames : deq[i] = 1

\* one worker has left while the other still waits for its render
C7_Witness ==
    \E w, v \in Workers :
        wpc[w] = "exited" /\ wpc[v] = "wait" /\ ink[v].stdin # <<>> /\ queue # <<>>

\* C8: a renderer never holds more than one unanswered command; a worker
\* that is about to take an item from the queue and write its command has
\* seen the ready sentinel since its last command (or since startup), and
\* nothing it has written or could mistake for a later answer is in the pipes.
C8_OneOutstandingRender ==
    \A w \in Workers :
        /\ Len(ink[w].stdin) <= 1
        /\ wpc[w] = "get" =>
            ready[w] /\ ink[w].stdin = <<>> /\ ink[w].stdout = <<>>
        /\ ink[w].stdin # <<>> => wpc[w] = "wait"

\* a single worker has written its second command and waits for the answer
C8_Witness ==
    /\ numWorkers = 1 /\ wpc[1] = "wait" /\ Len(ink[1].stdin) = 1
    /\ Cardinality({i \in DOMAIN cmds : cmds[i] = 1}) = 2

\* C9: once every worker is joined, no renderer process of the run is alive.
C9_RenderersTerminated ==
    (numWorkers >= 1 /\ (AllJoined \/ pc \in {"clear", "done"})
     /\ \A w \in Workers : wpc[w] = "exited")
        => \A w \in Workers : ink[w].state # "alive"

\* C10: a worker whose read has returned end-of-stream has failed: it is no
\* longer in its wait for the ready sentinel.
C10_EofIsFatal ==
    \A w \in Workers : eof[w] => wpc[w] = "raised"
\* the labels of the layers of the input document
Labels == {get_label(file, n) : n \in Indices(file)}

\* entry i of the plan (1-based) names a layer the document does not have
Unresolved(i) == \E k \in DOMAIN content[i].layers : content[i].layers[k] \notin Labels

\* C11: when a frame of the plan names a layer the document does not have,
\* the run never gets past create_slides_svg: the frames materialized so far
\* are frames before the first unresolved one, no worker is started and no
\* render command is written, and the run ends in the KeyError of that frame.
C11_UnresolvedNameAbortsEarly ==
    (\E i \in DOMAIN content : Unresolved(i)) =>
        /\ pc \in {"create_slides_svg", "failed"}
        /\ \A i \in 1..Len(svg_files) : ~Unresolved(i)
        /\ pc = "failed" => err = "KeyError" /\ Unresolved(Len(svg_files) + 1)
        /\ \A w \in Workers : wpc[w] = "new" /\ ink[w] = NoInk
        /\ cmds = <<>> /\ queue = <<>> /\ pdf_files = <<>>

\* the run has failed at the third frame of its plan
C11_Witness ==
    /\ pc = "failed" /\ err = "KeyError" /\ Len(svg_files) = 2
    /\ Unresolved(3) /\ ~Unresolved(1) /\ ~Unresolved(2)

\* C12: when join_slides_pdf finds no merge tool, the run ends in a
\* MergeFailedException and no frame of the run has been rendered.
C12_ToolUnavailableReportedEarly ==
    (merged.called /\ ~merged.found) =>
        /\ err = "MergeFailedException"
        /\ \A i \in DOMAIN rendered : rendered[i] = 0

\* C13: after a merge that failed with a MergeFailedException, the output
\* path holds no partial file: it is absent or holds a complete output.
C13_NoPartialOutput ==
    (pc = "failed" /\ err = "MergeFailedException") => ~out.partial

\* the plan of this run was compiled in structured mode (get_layer_structure
\* returned)
StructuredPlan == runs >= 1 /\ ~flat /\ err # "ValueError"

\* the slides of the input document: the layer children of its top-level layers
SlideNodes ==
    {n \in Indices(file) :
        file.layers[n].parent # 0 /\ file.layers[file.layers[n].parent].parent = 0}

\* the frames of slide n: its layer children, or the slide itself
FramesOf(n) == IF Children(file, n) = <<>> THEN 1 ELSE Len(Children(file, n))

\* slide m comes before slide n in document order (the sections in order,
\* the slides of one section in order)
SlideBefore(m, n) ==
    \/ file.layers[m].parent < file.layers[n].parent
    \/ file.layers[m].parent = file.layers[n].parent /\ m < n

\* the number of frames of the slides in S
FrameSum(S) ==
    Cardinality({n \in S : Children(file, n) = <<>>})
        + Cardinality({c \in Indices(file) : file.layers[c].parent \in S})

\* C14: the plan of a structured document has one entry per slide without
\* layer children and one entry per layer child of every other slide.
C14_FrameCount == StructuredPlan => Len(content) = FrameSum(SlideNodes)

\* the plan of a document whose only slide has two layer children
C14_Witness ==
    /\ StructuredPlan /\ pc = "pool" /\ Cardinality(SlideNodes) = 1
    /\ \E n \in SlideNodes : FramesOf(n) = 2

\* the 1-based position of slide n among the slides of the document
SlidePos(n) == Cardinality({m \in SlideNodes : SlideBefore(m, n)}) + 1

\* the 1-based position of the top-level layer g among the top-level layers
GroupPos(g) == Cardinality({t \in Indices(file) : file.layers[t].parent = 0 /\ t <= g})

\* the slide that entry i of the plan (1-based) belongs to
SlideOfEntry(i) ==
    CHOOSE n \in SlideNodes :
        LET first == FrameSum({m \in SlideNodes : SlideBefore(m, n)})
        IN  first < i /\ i <= first + FramesOf(n)

C16_FramesKeyedByIndex ==
    /\ Len(svg_files) <= Len(content)
    /\ \A i \in DOMAIN svg_files : svg_files[i].path = IntermediatePath(i - 1)
    /\ \A i \in DOMAIN pdf_files : pdf_files[i] = ArtifactPath(i - 1)
    /\ \A k \in DOMAIN queue :
          queue[k].kind = "job" =>
              \E i \in Frames : /\ queue[k].svg_file = IntermediatePath(i)
                                 /\ queue[k].pdf_file_name = ArtifactPath(i)
    /\ pc \in {"create_slides_svg", "spawn", "pool"} =>
          \A i \in DOMAIN svg_files :
              /\ exists(fs, IntermediatePath(i - 1))
              /\ fs[IntermediatePath(i - 1)] =
                     Materialize(doc, i - 1, content[i].num, content[i].layers).bytes

\* three frames are materialized and their jobs are on the queue
C16_Witness ==
    pc = "pool" /\ Len(svg_files) = 3 /\ Len(pdf_files) = 3 /\ Len(queue) = 3

\* a plan of this run was compiled, in either mode
AnyPlan == runs >= 1 /\ err # "ValueError"

\* the slide that entry i of the plan (1-based) belongs to, in either mode: in
\* flat mode the i-th top-level layer
EntrySlide(i) == IF flat THEN Children(file, 0)[i] ELSE SlideOfEntry(i)

\* layer n is the slide of entry i or, in structured mode, one of its sub-frames
InSlideOf(n, i) ==
    n = EntrySlide(i) \/ (~flat /\ file.layers[n].parent = EntrySlide(i))

\* a #import# line of the slide of entry i, or of one of its sub-frames,
\* removes the name
RemovedFor(i, name) ==
    \E n \in Indices(file) :
        InSlideOf(n, i) /\ Line(TRUE, name) \in Range(file.layers[n].lines)

\* C17 as amended: every frame of the plan, in structured and in flat mode,
\* has every name of the #master# directive in its layer list, except a name
\* that a `-name` line of a #import# directive of its slide or of a sub-frame
\* of its slide removes.
C17_MasterUnlessRemoved ==
    AnyPlan =>
        \A i \in DOMAIN content : \A k \in DOMAIN file.master :
            file.master[k] \in Range(content[i].layers) \/ RemovedFor(i, file.master[k])

\* a plan of two frames or more of a document with two master names and a
\* #import# directive on a slide
C17_Witness ==
    /\ AnyPlan /\ pc = "pool" /\ Len(content) >= 2
    /\ Len(file.master) = 2 /\ file.master[1] # file.master[2]
    /\ \E i \in DOMAIN content : file.layers[EntrySlide(i)].lines # <<>>

\* C17 as stated: every frame of the plan has every name of the #master#
\* directive in its layer list.
C17_MasterInEveryFrame ==
    AnyPlan =>
        \A i \in DOMAIN content : \A k \in DOMAIN file.master :
            file.master[k] \in Range(content[i].layers)

\* C18: when the slide of a frame carries a #import# directive with the lines
\* extra and -base (two different names), the layer list of the frame holds
\* extra and does not hold base.
C18_ImportAddsAndRemoves ==
    AnyPlan =>
        \A i \in DOMAIN content :
            LET lines == file.layers[EntrySlide(i)].lines
            IN  (Len(lines) = 2 /\ ~lines[1].neg /\ lines[2].neg
                 /\ lines[1].name # lines[2].name) =>
                    /\ lines[1].name \in Range(content[i].layers)
                    /\ lines[2].name \notin Range(content[i].layers)

\* C19: plan compilation never ends in the ValueError of list.remove: a line
\* that removes a name that is not in the list leaves the list as it is.
C19_RemoveAbsentIsNoop == runs >= 1 => err # "ValueError"

\* the input document without the #import# directives of its sub-frames
WithoutSubframeImports ==
    [file EXCEPT !.layers =
        [n \in Indices(file) |->
            IF file.layers[n].parent \in SlideNodes
            THEN [file.layers[n] EXCEPT !.lines = <<>>]
            ELSE file.layers[n]]]

\* C20: in structured mode the plan of a document is the plan of the same
\* document without the #import# directives that its sub-frames carry.
C20_SubframeImportIgnored ==
    StructuredPlan => content = get_layer_structure(WithoutSubframeImports).list

\* slide n and its sub-frames carry no #import# directive
Plain(n) ==
    /\ file.layers[n].lines = <<>>
    /\ \A c \in Range(Children(file, n)) : file.layers[c].lines = <<>>

\* the number of plan entries that come before the entries of slide n
FirstEntry(n) == FrameSum({m \in SlideNodes : SlideBefore(m, n)})

\* C21: in structured mode, in a document without a #master# directive, the
\* k-th frame of a slide without #import# directives whose sub-frames are
\* f1..fm has the layer list group, slide, f1, ..., fk, and such a slide
\* without layer children is one frame with the layer list group, slide.
C21_BuildUp ==
    (StructuredPlan /\ file.master = <<>>) =>
        \A i \in DOMAIN content :
            LET n == SlideOfEntry(i)
                subs == Children(file, n)
                base == <<get_label(file, file.layers[n].parent), get_label(file, n)>>
            IN  Plain(n) =>
                    content[i].layers =
                        IF subs = <<>> THEN base
                        ELSE base \o [j \in 1..(i - FirstEntry(n)) |->
                                         get_label(file, subs[j])]

\* the plan of a document whose only slide builds up in two sub-frames
C21_Witness ==
    /\ StructuredPlan /\ file.master = <<>> /\ pc = "pool" /\ Len(content) = 2
    /\ \E n \in SlideNodes : Plain(n) /\ FramesOf(n) = 2
    /\ Len(content[1].layers) = 3 /\ Len(content[2].layers) = 4

\* the plan of this run was compiled in flat mode (get_flat_layer_structure
\* returned)
FlatPlan == runs >= 1 /\ flat /\ err # "ValueError"

\* the top-level layers of the input document, in document order
TopLevel == Children(file, 0)

QueuedAt(i) == {k \in DOMAIN queue : queue[k].kind = "job" /\ FrameOf(queue[k]) = i}

C24_TempFolderLifecycle ==
    /\ (~temp /\ runs >= 1) => tmp_exists
    /\ (temp /\ pc = "done") => ~tmp_exists /\ fs = EmptyFS

RECURSIVE Meant(_, _)
\* the layers and opacities the user means slide i to show: what the slide
\* before shows when the line begins with +, then the entries of the line
Meant(m, i) ==
    (IF m[i].plus /\ i > 1 THEN Meant(m, i - 1) ELSE <<>>)
        \o [k \in DOMAIN m[i].items |->
               <<m[i].items[k].name,
                 IF m[i].items[k].value = <<>> THEN <<"1", ".", "0">>
                 ELSE m[i].items[k].value>>]

\* the layers and opacities slide i holds now: an entry without a value
\* stands for the opacity 1.0
Holds(i) ==
    LET slide == legacy.lists[legacy.content[i]]
    IN  [k \in DOMAIN slide |->
            LET e == legacy.entries[slide[k]]
            IN  <<e[1], IF Len(e) = 1 THEN <<"1", ".", "0">> ELSE e[2]>>]

\* C25: in the legacy content grammar every line makes one slide; the slide
\* of a line that begins with + holds the entries of the slide before it
\* followed by its own, any other line only its own; name*value gives the
\* entry the opacity value, a bare name the opacity 1.0; and what a slide
\* holds, and what is shown for it, does not change when later slides are
\* built from it or materialized.
C25_LegacyGrammar ==
    legacy.pc = "parsed" =>
        /\ Len(legacy.content) = Len(legacy.content_lines)
        /\ \A i \in DOMAIN legacy.content : Holds(i) = Meant(legacy.meant, i)
        /\ \A i \in DOMAIN legacy.shown : legacy.shown[i] = Meant(legacy.meant, i)

\* two slides are materialized; the second was built with + from the first,
\* which holds a bare name
C25_Witness ==
    /\ legacy.pc = "parsed" /\ Len(legacy.shown) = 2
    /\ legacy.meant[2].plus /\ ~legacy.meant[1].plus
    /\ \E k \in DOMAIN legacy.meant[1].items : legacy.meant[1].items[k].value = <<>>
    /\ Len(Holds(2)) > Len(Holds(1))

\* C26: a frame that the run has classified as a cache hit has its artifact,
\* and the artifact was rendered from the bytes the frame's intermediate
\* file holds now.
C26_NoStaleHit ==
    pc \in {"create_slides_svg", "spawn", "pool", "clear"} =>
        \A i \in Hits :
            /\ exists(fs, ArtifactPath(i))
            /\ fs[ArtifactPath(i)] = Render(fs[IntermediatePath(i)])

\* C27: when a run has returned normally, the output file exists, is
\* complete and holds the pages of the frames of the current plan in frame
\* order.
C27_OutputAfterNormalReturn ==
    pc = "done" =>
        /\ out.exists /\ ~out.partial
        /\ out.pages =
              [i \in 1..Len(content) |->
                  Render(Materialize(doc, i - 1, content[i].num, content[i].layers).bytes)]

\* C28: when every join has returned, and when join_slides_pdf has been
\* called, every worker process of the run has ended and no render is in
\* flight: no command waits in a renderer's input, every command written was
\* carried out, and every worker has seen the ready sentinel after its last
\* command.
C28_MergeAfterWorkers ==
    (AllJoined \/ merged.called) =>
        /\ \A w \in Workers : Exited(w) /\ ink[w].stdin = <<>> /\ ready[w]
        /\ \A i \in DOMAIN cmds : rendered[i] = cmds[i]

\* the merge of a run in which two workers rendered three frames, not in
\* frame order
C28_Witness ==
    /\ merged.called /\ numWorkers = 2 /\ overtaken /\ Len(content) = 3
    /\ \A i \in Frames : cmds[i] = 1 /\ rendered[i] = 1

\* C29: with a pool of one worker or more, a run that has started its pool
\* gets to the point where every worker has taken a shutdown sentinel and
\* ended, every join has returned and the queue is empty.
C29_PoolTerminates ==
    (numWorkers >= 1 /\ pc = "pool")
        ~> (AllJoined /\ queue = <<>> /\ \A w \in Workers : wpc[w] = "exited")

\* two workers have ended after they rendered three frames, not in frame
\* order, and nothing is left on the queue
C29_Witness ==
    /\ AllJoined /\ numWorkers = 2 /\ queue = <<>> /\ overtaken
    /\ \A w \in Workers : wpc[w] = "exited"
    /\ Cardinality(Misses) = 3 /\ \A i \in Frames : deq[i] = 1

\* C30: while create_slides_svg runs, and until the pool is started, no
\* worker and no renderer process of the run exists and the queue is empty;
\* while the pool runs, every frame of the plan is classified and its
\* intermediate file is written; and every file a render command names
\* exists.
C30_MaterializeBeforeWorkers ==
    /\ pc \in {"create_slides_svg", "spawn"} =>
          /\ \A w \in Workers : wpc[w] = "new" /\ ink[w] = NoInk
          /\ queue = <<>>
    /\ pc = "pool" =>
          /\ Len(svg_files) = Len(content)
          /\ \A i \in Frames : exists(fs, IntermediatePath(i))
    /\ \A w \in Workers : \A k \in DOMAIN ink[w].stdin :
          exists(fs, ink[w].stdin[k].svg)

\* a renderer holds a command while the coordinator still puts the jobs of
\* the three frames
C30_Witness ==
    /\ pc = "pool" /\ ~Populated /\ Len(content) = 3
    /\ \E w \in Workers : wpc[w] = "wait" /\ ink[w].stdin # <<>>

\* layer n is in the intermediate file and its display is inline
VisibleIn(bytes, n) ==
    \E k \in DOMAIN bytes :
        bytes[k].tag = "svg:g" /\ bytes[k].id = n /\ bytes[k].style.display = "inline"

\* the intermediate file of entry i of the plan (1-based)
FrameBytes(i) == fs[IntermediatePath(i - 1)]

\* the frames of this run that are materialized and on disk
Materialized ==
    IF pc \in {"create_slides_svg", "spawn", "pool"} THEN DOMAIN svg_files ELSE {}

\* C31: in the intermediate file of every materialized frame, every layer
\* the frame names and every layer that encloses it is visible.
C31_ShownWithAncestors ==
    \A i \in Materialized : \A k \in DOMAIN content[i].layers :
        \A a \in Indices(doc) :
            IsInside(doc, Resolve(doc, content[i].layers[k]), a) =>
                VisibleIn(FrameBytes(i), a)

\* layer n is in the intermediate file
PresentIn(bytes, n) == \E k \in DOMAIN bytes : bytes[k].tag = "svg:g" /\ bytes[k].id = n

\* the intermediate file holds a hidden top-level layer
HoldsHiddenTopLevel(bytes) ==
    \E k \in DOMAIN bytes :
        /\ bytes[k].tag = "svg:g" /\ bytes[k].parent = 0
        /\ bytes[k].style.display = "none"

\* the intermediate file holds the sodipodi:namedview element
HoldsNamedview(bytes) == \E k \in DOMAIN bytes : bytes[k].tag = "sodipodi:namedview"

\* the two pruning rules: the intermediate file of a frame none of whose
\* layers holds an svg:use has no hidden top-level layer and no namedview
\* element; that of any other frame has every layer and the namedview element
PruningRules(i) ==
    LET uses == \E n \in Shown(doc, content[i].layers) : HasUse(doc, n)
    IN  /\ ~uses => /\ ~HoldsHiddenTopLevel(FrameBytes(i))
                    /\ ~HoldsNamedview(FrameBytes(i))
        /\ uses => /\ \A n \in Indices(doc) : PresentIn(FrameBytes(i), n)
                   /\ HoldsNamedview(FrameBytes(i))

\* C32: every materialized frame keeps to the two pruning rules, and every
\* layer the frame names is in its intermediate file.
C32_Pruning ==
    \A i \in Materialized :
        /\ PruningRules(i)
        /\ \A n \in Shown(doc, content[i].layers) : PresentIn(FrameBytes(i), n)

C34_NoMergeBeforeRender ==
    merged.called => \A i \in Misses : rendered[i] >= 1

\* runwatch is in its loop: it was started and no exception has ended it
Watching == watch.pc \notin {"off", "raised"}

\* C35: in watch mode, as long as no exception has ended the program, after
\* every save of the input file (also one made while run is at work) a call
\* of run begins that reads the file as saved or later; and run is only
\* called when the mtime read differs from the mtime compiled last.
C35_NoModificationLost ==
    /\ \A k \in 1..MaxEdits :
          (Watching /\ watch.st_mtime = k) ~> (watch.built >= k \/ ~Watching)
    /\ [][watch'.pc = "run" /\ watch.pc # "run" => watch.mtime # watch.state]_vars

RECURSIVE FrameAlone(_, _)
\* the layer list of frame k of slide n (k = 0: the slide before its first
\* sub-frame) compiled from the slide alone: the names of its group and of
\* the slide, the #master# lines, the #import# lines of the slide and, one
\* sub-frame after the other, the name and the #import# lines of sub-frames
\* 1..k
FrameAlone(n, k) ==
    IF k = 0
    THEN ApplyLines(file.layers[n].lines,
                    <<get_label(file, file.layers[n].parent), get_label(file, n)>>
                        \o file.master).list
    ELSE LET sub == Children(file, n)[k]
         IN  ApplyLines(file.layers[sub].lines,
                        Append(FrameAlone(n, k - 1), get_label(file, sub))).list

\* C36: in structured mode the layer list of every plan entry is what its
\* slide compiled alone gives: nothing that an earlier slide or its frames
\* appended or removed appears in it or is missing from it, and no entry
\* differs from what it was when its frame was compiled.
C36_NoLeakBetweenSlides ==
    StructuredPlan =>
        \A i \in DOMAIN content :
            LET n == SlideOfEntry(i)
            IN  content[i].layers =
                    IF Children(file, n) = <<>> THEN FrameAlone(n, 0)
                    ELSE FrameAlone(n, i - FirstEntry(n))

\* the first slide imports a name and removes the name of its group, and the
\* entry of the slide after it holds the group and not the imported name
C36_Witness ==
    /\ StructuredPlan /\ pc = "spawn" /\ Len(content) >= 2
    /\ \E m, n \in SlideNodes :
          /\ SlideBefore(m, n) /\ file.layers[m].parent = file.layers[n].parent
          /\ Len(file.layers[m].lines) = 2
          /\ ~file.layers[m].lines[1].neg
          /\ file.layers[m].lines[2] =
                Line(TRUE, get_label(file, file.layers[m].parent))
          /\ file.layers[m].lines[1].name \in Range(content[FirstEntry(m) + 1].layers)
          /\ file.layers[m].lines[1].name \notin Range(content[FirstEntry(n) + 1].layers)
          /\ content[FirstEntry(m) + 1].layers[1] # get_label(file, file.layers[m].parent)
          /\ content[FirstEntry(n) + 1].layers[1] = get_label(file, file.layers[n].parent)

\* the layer nodes that enclose plan entry i: the group and the slide of the
\* entry and the sub-frames of the slide up to the frame of the entry
Enclosing(i) ==
    LET n == SlideOfEntry(i)
        subs == Children(file, n)
    IN  {file.layers[n].parent, n}
            \cup (IF subs = <<>> THEN {}
                  ELSE {subs[j] : j \in 1..(i - FirstEntry(n))})

\* C37: in the intermediate file of a structured frame of a document without
\* directives, of the layers that carry the name of a layer node enclosing
\* the frame, the enclosing nodes are visible and the others are not.
C37_ShowsEnclosingNodes ==
    StructuredPlan =>
        \A i \in Materialized : \A a \in Indices(file) :
            (\E e \in Enclosing(i) : get_label(file, a) = get_label(file, e)) =>
                (VisibleIn(FrameBytes(i), a) <=> a \in Enclosing(i))

\* the render commands that the renderers of the run have not carried out yet
InFlight == {c \in Workers \X DOMAIN svg_files : c[2] <= Len(ink[c[1]].stdin)}

\* C38: within one run no two jobs have the same source path or the same
\* target path, no target path is the intermediate path of a frame, and the
\* commands the workers have written name the source and the target of one
\* job each, no two of them the same target.
C38_DisjointPaths ==
    /\ \A i, j \in DOMAIN pdf_files :
          i # j => /\ svg_files[i].path # svg_files[j].path
                   /\ pdf_files[i] # pdf_files[j]
    /\ \A i \in DOMAIN pdf_files, j \in DOMAIN svg_files :
          pdf_files[i] # svg_files[j].path
    /\ \A c \in InFlight :
          LET cmd == ink[c[1]].stdin[c[2]]
          IN  /\ \E i \in DOMAIN pdf_files :
                    cmd.svg = svg_files[i].path /\ cmd.pdf = pdf_files[i]
              /\ \A e \in InFlight : e # c => ink[e[1]].stdin[e[2]].pdf # cmd.pdf

\* two workers have each written a render command that is not carried out yet
C38_Witness ==
    /\ numWorkers = 2 /\ Len(pdf_files) = 3
    /\ ink[1].stdin # <<>> /\ ink[2].stdin # <<>>

\* candidate t of TOOLS is available on the machine
IsAvailable(t) ==
    IF t = "PyPDF2" THEN tools.importable
    ELSE \E i \in DOMAIN tools.PATH : tools.PATH[i][t] = "exe"

\* C39: the merger find_merging_tool returns is an available candidate before
\* which no candidate in the order PyPDF2, pdfunite, gs is available, and
\* None exactly when no candidate is available; so the availability of the
\* three candidates fixes the choice.
C39_FirstAvailableTool ==
    tools.pc = "found" =>
        /\ tools.merger = "None" <=> \A i \in DOMAIN TOOLS : ~IsAvailable(TOOLS[i])
        /\ \A i \in DOMAIN TOOLS :
              tools.merger = TOOLS[i] =>
                  /\ IsAvailable(TOOLS[i])
                  /\ \A j \in 1..(i - 1) : ~IsAvailable(TOOLS[j])
        /\ TOOLS = <<"PyPDF2", "pdfunite", "gs">>

\* pdfunite is chosen on a machine without PyPDF2 where gs comes first on
\* PATH and pdfunite is also there as a file that is not executable
C39_Witness ==
    /\ tools.pc = "found" /\ tools.merger = "pdfunite" /\ ~tools.importable
    /\ Len(tools.PATH) = 2
    /\ tools.PATH[1]["gs"] = "exe" /\ tools.PATH[1]["pdfunite"] = "file"
    /\ tools.PATH[2]["pdfunite"] = "exe"
====
